---- MODULE Spec2Model ----
(***************************************************************************)
(* Black-Scholes-Merton pricing engine: the pricer (validation, d1/d2,     *)
(* price and Greeks), the spot sweep (simulate_bsm), the single-point      *)
(* entry (calculate_bsm) and the option-chain enrichment                   *)
(* (process_option_chains).                                                *)
(*                                                                         *)
(* Python floats are modelled as fixed-point integers with SCALE units per *)
(* 1.0 (three decimals); every arithmetic step rounds to the nearest unit, *)
(* symmetric around zero as IEEE rounding is.  np.nan is the value NaN.    *)
(***************************************************************************)
EXTENDS Integers, Sequences, FiniteSets, TLC

VARIABLES
    args,       \* the arguments the operations are applied to
    bsm,        \* the BlackScholesMerton instance last constructed (its attributes)
    nDerive,    \* how often _calculate_d1_d2 has run on that instance
    last,       \* the operation last executed, with its arguments
    ret,        \* what it returned
    raised,     \* the exception it raised, or NoExc
    printed,    \* the spots whose "Could not calculate" line it printed
    frames,     \* process_option_chains' local tables when it returned or raised
    today,      \* date.today(), as a day number
    heap,       \* the DataFrame objects the caller holds, by reference
    chains,     \* the chains argument: OptionType -> reference into heap
    expiration_date,    \* the expiration_date argument, as a day number
    stock_metadata,     \* the stock_metadata argument
    firstRun,   \* the first enrichment run on these arguments: its day and outcome
    session,    \* st.session_state: Event -> value
    page,       \* what the last script run put on the page
    simulated   \* event_simulate_bsm has run in this session

chainVars == <<today, heap, chains, expiration_date, stock_metadata, firstRun>>

appVars == <<session, page, simulated>>

vars == <<args, bsm, nDerive, last, ret, raised, printed, frames,
          today, heap, chains, expiration_date, stock_metadata, firstRun,
          session, page, simulated>>

----------------------------------------------------------------------------
(* Fixed-point arithmetic standing for float arithmetic *)

SCALE == 1000

NaN == 2000000000

Abs(x) == IF x < 0 THEN -x ELSE x

Sign(x) == IF x < 0 THEN -1 ELSE 1

\* n / d rounded to the nearest integer, halves away from zero
RDiv(n, d) == Sign(n) * Sign(d) * ((2 * Abs(n) + Abs(d)) \div (2 * Abs(d)))

FMul(a, b) == RDiv(a * b, SCALE)

FDiv(a, b) == RDiv(a * SCALE, b)

RECURSIVE NewtonSqrt(_, _)
NewtonSqrt(n, x) ==
    IF (x + n \div x) \div 2 >= x THEN x ELSE NewtonSqrt(n, (x + n \div x) \div 2)

\* floor of the square root of the integer n >= 0
ISqrt(n) == IF n = 0 THEN 0 ELSE NewtonSqrt(n, n)

\* s = floor(sqrt(n)) rounded up when n is nearer to (s+1)^2
NearestRoot(n, s) == IF n - s * s > s THEN s + 1 ELSE s

\* np.sqrt on a fixed-point value x >= 0
FSqrt(x) == NearestRoot(x * SCALE, ISqrt(x * SCALE))

LN2 == 693

\* 2*atanh(y) = 2*(y + y^3/3 + y^5/5 + y^7/7), given y and y^2
AtanhSeries(y, y2) ==
    2 * (y + RDiv(FMul(y2, y), 3) + RDiv(FMul(FMul(y2, y2), y), 5)
           + RDiv(FMul(FMul(FMul(y2, y2), y2), y), 7))

Atanh2(y) == AtanhSeries(y, FMul(y, y))

RECURSIVE LnReduced(_, _)
\* ln x for x > 0: halve or double x into [1, 2), then 2*atanh((x-1)/(x+1))
LnReduced(x, acc) ==
    IF x >= 2 * SCALE THEN LnReduced(RDiv(x, 2), acc + LN2)
    ELSE IF x < SCALE THEN LnReduced(2 * x, acc - LN2)
    ELSE acc + Atanh2(FDiv(x - SCALE, x + SCALE))

\* np.log
FLn(x) == LnReduced(x, 0)

Square(h) == FMul(h, h)

\* 1 + x + x^2/2 + x^3/6 + x^4/24 + x^5/120
ExpSeries(x) ==
    SCALE + FMul(x, SCALE + RDiv(FMul(x, SCALE + RDiv(FMul(x, SCALE
                  + RDiv(FMul(x, SCALE + RDiv(x, 5)), 4)), 3)), 2))

RECURSIVE FExp(_)
\* np.exp: the series on |x| <= 1/2, squaring above that
FExp(x) ==
    IF Abs(x) > SCALE \div 2 THEN Square(FExp(RDiv(x, 2))) ELSE ExpSeries(x)

INV_SQRT_2PI == 399

\* beyond this many standard deviations the density is 0 to three decimals
PDF_CUTOFF == 10

\* scipy.stats.norm.pdf
NormPdf(x) ==
    IF Abs(x) > PDF_CUTOFF * SCALE THEN 0
    ELSE FMul(INV_SQRT_2PI, FExp(-RDiv(FMul(x, x), 2)))

\* a probability kept within [1/2, 1]
UpperHalf(c) == IF c > SCALE THEN SCALE ELSE IF c < SCALE \div 2 THEN SCALE \div 2 ELSE c

CdfPoly(k) ==
    FMul(k, 319 + FMul(k, -357 + FMul(k, 1781 + FMul(k, -1821 + FMul(k, 1330)))))

\* scipy.stats.norm.cdf for x >= 0 (Abramowitz-Stegun 26.2.17)
NormCdfPos(x) ==
    UpperHalf(SCALE - FMul(NormPdf(x), CdfPoly(FDiv(SCALE, SCALE + FMul(232, x)))))

Mirror(x, c) == IF x >= 0 THEN c ELSE SCALE - c

\* scipy.stats.norm.cdf
NormCdf(x) == Mirror(x, NormCdfPos(Abs(x)))

----------------------------------------------------------------------------
(* Python values *)

NoExc == [type |-> "none", msg |-> ""]

ValueError(m) == [type |-> "ValueError", msg |-> m]

KeyError(m) == [type |-> "KeyError", msg |-> m]

None == [kind |-> "None"]

Float(x) == [kind |-> "float", v |-> x]

Dict(d) == [kind |-> "dict", v |-> d]

\* enums.OptionType has the members CALL and PUT; NEITHER stands for any value
\* that is neither (None, a plain string, ...)
CALL == "CALL"

PUT == "PUT"

NEITHER == "NEITHER"

OptionTypeMembers == {PUT, CALL}

----------------------------------------------------------------------------
(* class BlackScholesMerton.  An instance is the record of its attributes;  *)
(* a method yields [self, ret, exc, derives]: the instance afterwards, the  *)
(* value returned, the exception raised, and how many times it ran          *)
(* _calculate_d1_d2.                                                        *)

MsgSpot == "Spot price (S) must be positive."

MsgStrike == "Strike price (K) must be positive."

MsgTime == "Time to maturity (t) must be positive."

MsgSigma == "Volatility (sigma) must be positive."

MsgDividend == "Dividend yield (q) cannot be negative."

MsgOptionType == "Invalid option type."

MsgVariant == "Invalid option type. Must be OptionType.CALL or OptionType.PUT."

validate_variables_LooseDividend(self) ==
    IF self.S <= 0 THEN ValueError(MsgSpot)
    ELSE IF self.K <= 0 THEN ValueError(MsgStrike)
    ELSE IF self.t <= 0 THEN ValueError(MsgTime)
    ELSE IF self.sigma <= 0 THEN ValueError(MsgSigma)
    ELSE IF self.q <= 0 THEN ValueError(MsgDividend)
    ELSE NoExc

validate_variables(self) ==
    IF self.S <= 0 THEN ValueError(MsgSpot)
    ELSE IF self.K <= 0 THEN ValueError(MsgStrike)
    ELSE IF self.t <= 0 THEN ValueError(MsgTime)
    ELSE IF self.sigma <= 0 THEN ValueError(MsgSigma)
    ELSE IF self.q < 0 THEN ValueError(MsgDividend)
    ELSE NoExc

D1D2(d1, vol_sqrt_t) == <<d1, d1 - vol_sqrt_t>>

calculate_d1_d2(self) ==
    D1D2(FDiv(FLn(FDiv(self.S, self.K))
                + FMul(self.r - self.q + FMul(SCALE \div 2, FMul(self.sigma, self.sigma)),
                       self.t),
              FMul(self.sigma, FSqrt(self.t))),
         FMul(self.sigma, FSqrt(self.t)))

Returns(self, value, derives) ==
    [self |-> self, ret |-> value, exc |-> NoExc, derives |-> derives]

Raises(self, exc, derives) ==
    [self |-> self, ret |-> None, exc |-> exc, derives |-> derives]

WithD1D2(self, d) == self @@ [d1 |-> d[1], d2 |-> d[2]]

\* __init__ after the six attribute assignments
InitBody(self, exc) ==
    IF exc # NoExc THEN Raises(self, exc, 0)
    ELSE Returns(WithD1D2(self, calculate_d1_d2(self)), None, 1)

Attributes(S, K, t, r, sigma, q) ==
    [S |-> S, K |-> K, t |-> t, r |-> r, sigma |-> sigma, q |-> q]

InitSelf(self) == InitBody(self, validate_variables(self))

init(S, K, t, r, sigma, q) == InitSelf(Attributes(S, K, t, r, sigma, q))

\* np.exp(-self.q * self.t) and np.exp(-self.r * self.t)
DiscountQ(self) == FExp(-FMul(self.q, self.t))

DiscountR(self) == FExp(-FMul(self.r, self.t))

delta(self, option_type) ==
    IF option_type = CALL
    THEN Returns(self, Float(FMul(DiscountQ(self), NormCdf(self.d1))), 0)
    ELSE IF option_type = PUT
    THEN Returns(self, Float(FMul(DiscountQ(self), NormCdf(self.d1) - SCALE)), 0)
    ELSE Raises(self, ValueError(MsgOptionType), 0)

\* without the zero test the float division gives infinity, written NaN + 1
GammaValue_Unguarded(self, denominator) ==
    IF denominator = 0 THEN NaN + 1
    ELSE FDiv(FMul(NormPdf(self.d1), DiscountQ(self)), denominator)

GammaValue(self, denominator) ==
    IF denominator = 0 THEN NaN
    ELSE FDiv(FMul(NormPdf(self.d1), DiscountQ(self)), denominator)

gamma_Rederiving(self) ==
    Returns(WithD1D2(Attributes(self.S, self.K, self.t, self.r, self.sigma, self.q),
                     calculate_d1_d2(self)),
            Float(GammaValue(self, FMul(FMul(self.S, self.sigma), FSqrt(self.t)))), 1)

gamma(self) ==
    Returns(self, Float(GammaValue(self, FMul(FMul(self.S, self.sigma), FSqrt(self.t)))), 0)

vega(self) ==
    Returns(self,
            Float(RDiv(FMul(FMul(FMul(self.S, DiscountQ(self)), NormPdf(self.d1)),
                            FSqrt(self.t)),
                       100)),
            0)

ThetaBody(self, option_type, term1) ==
    IF option_type = CALL
    THEN Returns(self,
                 Float(RDiv(term1
                            + FMul(FMul(FMul(self.q, self.S), DiscountQ(self)), NormCdf(self.d1))
                            + FMul(FMul(FMul(-self.r, self.K), DiscountR(self)), NormCdf(self.d2)),
                            365)),
                 0)
    ELSE IF option_type = PUT
    THEN Returns(self,
                 Float(RDiv(term1
                            + FMul(FMul(FMul(-self.q, self.S), DiscountQ(self)), NormCdf(-self.d1))
                            + FMul(FMul(FMul(self.r, self.K), DiscountR(self)), NormCdf(-self.d2)),
                            365)),
                 0)
    ELSE Raises(self, ValueError(MsgOptionType), 0)

theta(self, option_type) ==
    ThetaBody(self, option_type,
              -FDiv(FMul(FMul(FMul(self.S, DiscountQ(self)), NormPdf(self.d1)), self.sigma),
                    2 * FSqrt(self.t)))

RhoBody(self, option_type, term) ==
    IF option_type = CALL
    THEN Returns(self, Float(RDiv(FMul(term, NormCdf(self.d2)), 100)), 0)
    ELSE IF option_type = PUT
    THEN Returns(self, Float(RDiv(FMul(-term, NormCdf(-self.d2)), 100)), 0)
    ELSE Raises(self, ValueError(MsgOptionType), 0)

rho(self, option_type) ==
    RhoBody(self, option_type, FMul(FMul(self.K, self.t), DiscountR(self)))

\* the dict literal of call() and put(): price, then the five Greeks in the
\* order the literal evaluates them, each method handed the instance the one
\* before it left
Greeks5(price, a, b, c, d, e) ==
    Returns(e.self,
            Dict([price |-> price, delta |-> a.ret.v, gamma |-> b.ret.v,
                  vega |-> c.ret.v, theta |-> d.ret.v, rho |-> e.ret.v]),
            a.derives + b.derives + c.derives + d.derives + e.derives)

Greeks4(price, a, b, c, d, option_type) ==
    Greeks5(price, a, b, c, d, rho(d.self, option_type))

Greeks3(price, a, b, c, option_type) ==
    Greeks4(price, a, b, c, theta(c.self, option_type), option_type)

Greeks2(price, a, b, option_type) == Greeks3(price, a, b, vega(b.self), option_type)

Greeks1_SignedGamma(price, a, option_type) ==
    Greeks2(price, a,
            IF option_type = PUT
            THEN Returns(a.self, Float(-gamma(a.self).ret.v), 0)
            ELSE gamma(a.self),
            option_type)

Greeks1(price, a, option_type) == Greeks2(price, a, gamma(a.self), option_type)

GreeksOf(self, price, option_type) == Greeks1(price, delta(self, option_type), option_type)

call(self) ==
    GreeksOf(self,
             FMul(FMul(self.S, DiscountQ(self)), NormCdf(self.d1))
               - FMul(FMul(self.K, DiscountR(self)), NormCdf(self.d2)),
             CALL)

put_DiscountsSwapped(self) ==
    GreeksOf(self,
             FMul(FMul(self.K, DiscountQ(self)), NormCdf(-self.d2))
               - FMul(FMul(self.S, DiscountR(self)), NormCdf(-self.d1)),
             PUT)

put(self) ==
    GreeksOf(self,
             FMul(FMul(self.K, DiscountR(self)), NormCdf(-self.d2))
               - FMul(FMul(self.S, DiscountQ(self)), NormCdf(-self.d1)),
             PUT)

----------------------------------------------------------------------------
(* calculate_bsm *)

AddDerives(res, n) == [res EXCEPT !.derives = @ + n]

\* calculate_bsm once bsm_model's constructor has run
Dispatch_Swapped(bsm_model, option_type) ==
    IF bsm_model.exc # NoExc THEN bsm_model
    ELSE IF option_type = CALL THEN AddDerives(put(bsm_model.self), bsm_model.derives)
    ELSE IF option_type = PUT THEN AddDerives(call(bsm_model.self), bsm_model.derives)
    ELSE Raises(bsm_model.self, ValueError(MsgVariant), bsm_model.derives)

Dispatch(bsm_model, option_type) ==
    IF bsm_model.exc # NoExc THEN bsm_model
    ELSE IF option_type = CALL THEN AddDerives(call(bsm_model.self), bsm_model.derives)
    ELSE IF option_type = PUT THEN AddDerives(put(bsm_model.self), bsm_model.derives)
    ELSE Raises(bsm_model.self, ValueError(MsgVariant), bsm_model.derives)

calculate_bsm(S, K, t, r, sigma, q, option_type) ==
    Dispatch(init(S, K, t, r, sigma, q), option_type)

----------------------------------------------------------------------------
(* simulate_bsm.  A DataFrame is [columns, rows]: the column labels in      *)
(* order and the rows, each a function from the labels to the cells.        *)

DataFrame(columns, rows) == [kind |-> "DataFrame", v |-> [columns |-> columns, rows |-> rows]]

\* pd.DataFrame(): no columns, no rows
EmptyFrame == [columns |-> <<>>, rows |-> <<>>]

Min(a, b) == IF a <= b THEN a ELSE b

Max(a, b) == IF a >= b THEN a ELSE b

\* np.linspace(start, stop, num) with endpoint=True, num >= 0
linspace(start, stop, num) ==
    LET div    == num - 1
        delta_ == stop - start
        step   == IF div > 0 THEN RDiv(delta_, div) ELSE 0
    IN  [i \in 1..num |->
            IF num > 1 /\ i = num THEN stop
            ELSE IF div > 0 /\ step # 0 THEN (i - 1) * step + start
            ELSE IF div > 0 THEN RDiv((i - 1) * delta_, div) + start
            ELSE start]

SweepColumns == <<"price", "delta", "gamma", "vega", "theta", "rho", "S">>

\* the try block once the constructor has run: the except clause, or the
\* if/else on option_type and greeks["S"] = spot_price
TryBody(spot_price, bs_model, option_type) ==
    IF bs_model.exc # NoExc
    THEN [caught |-> TRUE, exc |-> bs_model.exc, greeks |-> <<>>]
    ELSE [caught |-> FALSE, exc |-> NoExc,
          greeks |-> (IF option_type = CALL THEN call(bs_model.self)
                      ELSE put(bs_model.self)).ret.v @@ [S |-> spot_price]]

\* one pass of the loop body
SimulatePoint(spot_price, K, t, r, sigma, q, option_type) ==
    TryBody(spot_price, init(spot_price, K, t, r, sigma, q), option_type)

RECURSIVE SimulateLoop(_, _, _, _, _, _, _, _, _, _)

\* after an exception the loop ends instead of going on to the next point
LoopStep_Aborting(p, spot_prices, i, results, log, K, t, r, sigma, q, option_type) ==
    IF p.caught
    THEN [results |-> results, printed |-> Append(log, spot_prices[i])]
    ELSE SimulateLoop(spot_prices, i + 1, Append(results, p.greeks),
                      log, K, t, r, sigma, q, option_type)

\* after an exception the loop also leaves out the point that follows
LoopStep_SkipsNext(p, spot_prices, i, results, log, K, t, r, sigma, q, option_type) ==
    IF p.caught
    THEN SimulateLoop(spot_prices, i + 2, results,
                      Append(log, spot_prices[i]), K, t, r, sigma, q, option_type)
    ELSE SimulateLoop(spot_prices, i + 1, Append(results, p.greeks),
                      log, K, t, r, sigma, q, option_type)

\* what the loop does with the outcome p of point i
LoopStep(p, spot_prices, i, results, log, K, t, r, sigma, q, option_type) ==
    IF p.caught
    THEN SimulateLoop(spot_prices, i + 1, results,
                      Append(log, spot_prices[i]), K, t, r, sigma, q, option_type)
    ELSE SimulateLoop(spot_prices, i + 1, Append(results, p.greeks),
                      log, K, t, r, sigma, q, option_type)

\* for spot_price in spot_prices: ...; log lists the spots whose
\* "Could not calculate" line was printed
SimulateLoop(spot_prices, i, results, log, K, t, r, sigma, q, option_type) ==
    IF i > Len(spot_prices) THEN [results |-> results, printed |-> log]
    ELSE LoopStep(SimulatePoint(spot_prices[i], K, t, r, sigma, q, option_type),
                  spot_prices, i, results, log, K, t, r, sigma, q, option_type)

SpotPrices_OpenEnd(S, K, range_percent, steps) ==
    LET s_start == FMul(Min(S, K), SCALE - range_percent)
        s_end   == FMul(Max(S, K), SCALE + range_percent)
    IN  [i \in 1..steps |-> s_start + RDiv((i - 1) * (s_end - s_start), steps)]

\* lines 180-186: the spot points of the sweep
SpotPrices(S, K, range_percent, steps) ==
    LET lower_bound == Min(S, K)
        upper_bound == Max(S, K)
        s_start == FMul(lower_bound, SCALE - range_percent)
        s_end   == FMul(upper_bound, SCALE + range_percent)
    IN  linspace(s_start, s_end, steps)

\* pd.DataFrame(results)
FrameOfDicts(results) ==
    IF results = <<>> THEN DataFrame(<<>>, <<>>) ELSE DataFrame(SweepColumns, results)

SimulateResult(loop) ==
    [ret |-> FrameOfDicts(loop.results), exc |-> NoExc, printed |-> loop.printed]

simulate_bsm(S, K, t, r, sigma, q, option_type, range_percent, steps) ==
    SimulateResult(SimulateLoop(SpotPrices(S, K, range_percent, steps), 1, <<>>, <<>>,
                                K, t, r, sigma, q, option_type))

----------------------------------------------------------------------------
(* data_utils.process_option_chains.  The caller's DataFrames live on the   *)
(* heap, a sequence indexed by reference; the function works on a state     *)
(* st = [heap, calls, puts, S, t, r, q, exc] holding its locals.            *)

MarketColumns == <<"contractSymbol", "strike", "bid", "ask", "impliedVolatility", "inTheMoney">>

GreekColumns == <<"price", "delta", "gamma", "vega", "theta", "rho">>

Range(seq) == {seq[i] : i \in 1..Len(seq)}

HasColumn(df, col) == col \in Range(df.columns)

\* df[col] = value, a scalar broadcast to every row
SetColumnScalar(df, col, value) ==
    [columns |-> IF HasColumn(df, col) THEN df.columns ELSE Append(df.columns, col),
     rows |-> [i \in 1..Len(df.rows) |-> (col :> value) @@ df.rows[i]]]

RECURSIVE SetColumnsScalar(_, _, _, _)
\* for col in cols: df[col] = value
SetColumnsScalar(df, cols, k, value) ==
    IF k > Len(cols) THEN df
    ELSE SetColumnsScalar(SetColumnScalar(df, cols[k], value), cols, k + 1, value)

\* df.loc[idx, data.keys()] = data.values(), idx the label of row i
SetRow(df, i, data) == [df EXCEPT !.rows[i] = data @@ @]

SetSpread_Reversed(df) ==
    [columns |-> IF HasColumn(df, "spread") THEN df.columns ELSE Append(df.columns, "spread"),
     rows |-> [i \in 1..Len(df.rows) |->
                  ("spread" :> (df.rows[i].bid - df.rows[i].ask)) @@ df.rows[i]]]

\* df["spread"] = df["ask"] - df["bid"]
SetSpread(df) ==
    [columns |-> IF HasColumn(df, "spread") THEN df.columns ELSE Append(df.columns, "spread"),
     rows |-> [i \in 1..Len(df.rows) |->
                  ("spread" :> (df.rows[i].ask - df.rows[i].bid)) @@ df.rows[i]]]

\* df.reindex(columns=cols): the listed columns, NaN where df has none
Reindex(df, cols) ==
    [columns |-> cols,
     rows |-> [i \in 1..Len(df.rows) |->
                  [c \in Range(cols) |->
                      IF c \in DOMAIN df.rows[i] THEN df.rows[i][c] ELSE NaN]]]

copy_Alias(h, ref) == [heap |-> h, ref |-> ref]

\* DataFrame.copy(): a new object on the heap
copy(h, ref) == [heap |-> Append(h, h[ref]), ref |-> Len(h) + 1]

TargetColumns ==
    <<"contractSymbol", "strike", "bid", "ask", "impliedVolatility", "spread",
      "inTheMoney", "price", "delta">>

\* lines 57-60
Parameters(h, expiration_date_, stock_metadata_, today_) ==
    [heap |-> h,
     S |-> stock_metadata_.spotPrice,
     t |-> RDiv(Abs(expiration_date_ - today_) * SCALE, 365),
     r |-> RDiv(4250, 100),
     q |-> RDiv(stock_metadata_.dividendYield, 100),
     exc |-> NoExc]

WithCopies(st, c, p) == st @@ [calls |-> c.ref, puts |-> p.ref]

\* lines 62-63; the second copy is taken from the heap the first one left
CopyPuts(st, c, chains_) == WithCopies([st EXCEPT !.heap = copy(c.heap, chains_[PUT]).heap],
                                        c, copy(c.heap, chains_[PUT]))

CopyBoth(st, chains_) == CopyPuts(st, copy(st.heap, chains_[CALL]), chains_)

\* lines 65-67
NanColumns(st) ==
    [st EXCEPT !.heap[st.calls] = SetColumnsScalar(@, GreekColumns, 1, NaN),
               !.heap[st.puts] = SetColumnsScalar(@, GreekColumns, 1, NaN)]

\* the dict the loop body writes into row i: call() in the calls loop,
\* put() in the puts loop
RowData(bsm_model, variant) ==
    IF variant = CALL THEN call(bsm_model.self).ret.v ELSE put(bsm_model.self).ret.v

PriceRow_Skipping(st, ref, i, bsm_model, variant) ==
    IF bsm_model.exc # NoExc THEN st
    ELSE [st EXCEPT !.heap[ref] = SetRow(@, i, RowData(bsm_model, variant))]

\* one pass of a loop body once the constructor has run
PriceRow(st, ref, i, bsm_model, variant) ==
    IF bsm_model.exc # NoExc THEN [st EXCEPT !.exc = bsm_model.exc]
    ELSE [st EXCEPT !.heap[ref] = SetRow(@, i, RowData(bsm_model, variant))]

EnrichRow_FirstRow(st, ref, i, variant) ==
    PriceRow(st, ref, i,
             init(st.S, st.heap[ref].rows[1].strike, st.t, st.r,
                  st.heap[ref].rows[1].impliedVolatility, st.q),
             variant)

\* lines 70-74 and 79-83
EnrichRow(st, ref, i, variant) ==
    PriceRow(st, ref, i,
             init(st.S, st.heap[ref].rows[i].strike, st.t, st.r,
                  st.heap[ref].rows[i].impliedVolatility, st.q),
             variant)

RECURSIVE EnrichLoop(_, _, _, _)
\* for idx, row in df.iterrows(): an exception ends the loop and the function
EnrichLoop(st, ref, i, variant) ==
    IF st.exc # NoExc \/ i > Len(st.heap[ref].rows) THEN st
    ELSE EnrichLoop(EnrichRow(st, ref, i, variant), ref, i + 1, variant)

\* lines 76 and 85
Spread(st, ref) ==
    IF st.exc # NoExc THEN st
    ELSE IF ~HasColumn(st.heap[ref], "ask") THEN [st EXCEPT !.exc = KeyError("ask")]
    ELSE IF ~HasColumn(st.heap[ref], "bid") THEN [st EXCEPT !.exc = KeyError("bid")]
    ELSE [st EXCEPT !.heap[ref] = SetSpread(@)]

\* lines 69-85
EnrichBoth(st) ==
    Spread(EnrichLoop(Spread(EnrichLoop(st, st.calls, 1, CALL), st.calls),
                      st.puts, 1, PUT),
           st.puts)

RECURSIVE SortedKeys(_)
\* the join keys in ascending order
SortedKeys(keys) ==
    IF keys = {} THEN <<>>
    ELSE <<CHOOSE k \in keys : \A o \in keys : k <= o>>
         \o SortedKeys(keys \ {CHOOSE k \in keys : \A o \in keys : k <= o})

\* the cells of the side that has no row for a key
NanRow == [c \in Range(TargetColumns) |-> NaN]

MergedRow(key, c, p) ==
    [strike |-> key,
     contractSymbol_call |-> c.contractSymbol, bid_call |-> c.bid, ask_call |-> c.ask,
     impliedVolatility_call |-> c.impliedVolatility, spread_call |-> c.spread,
     inTheMoney_call |-> c.inTheMoney, price_call |-> c.price, delta_call |-> c.delta,
     contractSymbol_put |-> p.contractSymbol, bid_put |-> p.bid, ask_put |-> p.ask,
     impliedVolatility_put |-> p.impliedVolatility, spread_put |-> p.spread,
     inTheMoney_put |-> p.inTheMoney, price_put |-> p.price, delta_put |-> p.delta]

MergedColumns ==
    <<"contractSymbol_call", "strike", "bid_call", "ask_call", "impliedVolatility_call",
      "spread_call", "inTheMoney_call", "price_call", "delta_call",
      "contractSymbol_put", "bid_put", "ask_put", "impliedVolatility_put",
      "spread_put", "inTheMoney_put", "price_put", "delta_put">>

\* the rows of one side with the given key, in that side's order; the
\* NaN row when it has none
RowsWithKey(rows, key) ==
    IF \E i \in 1..Len(rows) : rows[i].strike = key
    THEN SelectSeq(rows, LAMBDA row : row.strike = key)
    ELSE <<NanRow>>

\* every left row of a key with every right row of it, left-major
Pairs(key, ls, rs) ==
    [n \in 1..(Len(ls) * Len(rs)) |->
        MergedRow(key, ls[((n - 1) \div Len(rs)) + 1], rs[((n - 1) % Len(rs)) + 1])]

RECURSIVE MergeKeys(_, _, _, _)
MergeKeys(keys, k, left, right) ==
    IF k > Len(keys) THEN <<>>
    ELSE Pairs(keys[k], RowsWithKey(left, keys[k]), RowsWithKey(right, keys[k]))
         \o MergeKeys(keys, k + 1, left, right)

\* left.merge(right, how="outer", on="strike", suffixes=("_call", "_put")):
\* an outer join orders its rows by the join key
merge(left, right) ==
    [columns |-> MergedColumns,
     rows |-> MergeKeys(SortedKeys({left.rows[i].strike : i \in 1..Len(left.rows)}
                                     \cup {right.rows[i].strike : i \in 1..Len(right.rows)}),
                        1, left.rows, right.rows)]

\* what the caller is left with: its own objects (the locals are dropped),
\* the value returned or the exception, and the locals as they were
Outcome(h, st, calls_final, puts_final) ==
    [heap |-> SubSeq(st.heap, 1, Len(h)),
     ret |-> IF st.exc # NoExc THEN None
             ELSE DataFrame(merge(calls_final, puts_final).columns,
                            merge(calls_final, puts_final).rows),
     exc |-> st.exc,
     frames |-> [calls |-> st.heap[st.calls], puts |-> st.heap[st.puts],
                 calls_final |-> calls_final, puts_final |-> puts_final,
                 S |-> st.S, t |-> st.t, r |-> st.r, q |-> st.q,
                 retRef |-> Len(st.heap) + 3]]

\* lines 87-92
Finish(h, st) ==
    Outcome(h, st, Reindex(st.heap[st.calls], TargetColumns),
            Reindex(st.heap[st.puts], TargetColumns))

process_option_chains(h, chains_, expiration_date_, stock_metadata_, today_) ==
    Finish(h, EnrichBoth(NanColumns(CopyBoth(
                Parameters(h, expiration_date_, stock_metadata_, today_), chains_))))

----------------------------------------------------------------------------
(* The pricer's operations as steps: SpecPricer *)

\* bounds of the sweep and of the enrichment (used further down)
MaxSteps == 5

SpotValues == {0, 90 * SCALE, 100 * SCALE, 110 * SCALE}

StrikeValues == {0, 100 * SCALE}

TimeValues == {0, SCALE \div 2}

RateValues == {-20, 0, 43}

SigmaValues == {0, 200}

DividendValues == {-10, 0, 20}

OptionTypeValues == {CALL, PUT, NEITHER}

NoObject == [S |-> 0, K |-> 0, t |-> 0, r |-> 0, sigma |-> 0, q |-> 0]

NoRun == [day |-> -1, ret |-> None, exc |-> NoExc]

IdleCall ==
    /\ bsm = NoObject
    /\ nDerive = 0
    /\ last = [op |-> "none", option_type |-> ""]
    /\ ret = None
    /\ raised = NoExc
    /\ printed = <<>>
    /\ frames = <<>>

\* no session: the engine is used without the page
IdleApp ==
    /\ session = <<>>
    /\ page = <<>>
    /\ simulated = FALSE

IdleChain ==
    /\ today = 0
    /\ heap = <<>>
    /\ chains = <<>>
    /\ expiration_date = 0
    /\ stock_metadata = <<>>
    /\ firstRun = NoRun

\* a method has run on the instance bsm
Ran(op, option_type, res) ==
    /\ bsm' = res.self
    /\ nDerive' = nDerive + res.derives
    /\ last' = [op |-> op, option_type |-> option_type]
    /\ ret' = res.ret
    /\ raised' = res.exc
    /\ printed' = <<>>
    /\ UNCHANGED <<args, frames>>
    /\ UNCHANGED chainVars
    /\ UNCHANGED appVars

\* a constructor has run: bsm is the new instance
Built(op, option_type, res) ==
    /\ bsm' = res.self
    /\ nDerive' = res.derives
    /\ last' = [op |-> op, option_type |-> option_type]
    /\ ret' = res.ret
    /\ raised' = res.exc
    /\ printed' = <<>>
    /\ UNCHANGED <<args, frames>>
    /\ UNCHANGED chainVars
    /\ UNCHANGED appVars

Constructed == "d1" \in DOMAIN bsm

DoInit == Built("__init__", "", init(args.S, args.K, args.t, args.r, args.sigma, args.q))

DoCall == Constructed /\ Ran("call", "", call(bsm))

DoPut == Constructed /\ Ran("put", "", put(bsm))

DoDelta == Constructed /\ \E ot \in OptionTypeValues : Ran("delta", ot, delta(bsm, ot))

DoGamma == Constructed /\ Ran("gamma", "", gamma(bsm))

DoVega == Constructed /\ Ran("vega", "", vega(bsm))

DoTheta == Constructed /\ \E ot \in OptionTypeValues : Ran("theta", ot, theta(bsm, ot))

DoRho == Constructed /\ \E ot \in OptionTypeValues : Ran("rho", ot, rho(bsm, ot))

DoCalculateBsm ==
    \E ot \in OptionTypeValues :
        Built("calculate_bsm", ot,
              calculate_bsm(args.S, args.K, args.t, args.r, args.sigma, args.q, ot))

InitPricer ==
    /\ args \in [S : SpotValues, K : StrikeValues, t : TimeValues, r : RateValues,
                 sigma : SigmaValues, q : DividendValues]
    /\ IdleCall
    /\ IdleChain
    /\ IdleApp

NextPricer ==
    \/ DoInit
    \/ DoCall
    \/ DoPut
    \/ DoDelta
    \/ DoGamma
    \/ DoVega
    \/ DoTheta
    \/ DoRho
    \/ DoCalculateBsm

SpecPricer == InitPricer /\ [][NextPricer]_vars

----------------------------------------------------------------------------
(* The pricer on inputs so small that S * sigma * sqrt(t) rounds to zero,   *)
(* as a product of tiny doubles underflows to 0.0: SpecDegenerate.  The     *)
(* inputs keep S / K and sigma * sqrt(t) away from zero.                    *)

TinySpotValues == {1, 2, 5}

TinyStrikeValues == {1, 2}

TinyTimeValues == {SCALE \div 2, SCALE}

TinySigmaValues == {200, 400}

InitDegenerate ==
    /\ args \in [S : TinySpotValues, K : TinyStrikeValues, t : TinyTimeValues,
                 r : {0, 43}, sigma : TinySigmaValues, q : {0, 20}]
    /\ IdleCall
    /\ IdleChain
    /\ IdleApp

SpecDegenerate == InitDegenerate /\ [][NextPricer]_vars

----------------------------------------------------------------------------
(* simulate_bsm applied to bounded inputs: SpecSweep *)

SweepSpotValues == {50 * SCALE, 100 * SCALE}

SweepStrikeValues == {60 * SCALE, 100 * SCALE}

SweepTimeValues == {0, SCALE}

RangeValues == {0, 300, 1000, 1500}

Simulated(res) ==
    /\ last' = [op |-> "simulate_bsm", option_type |-> args.option_type]
    /\ ret' = res.ret
    /\ raised' = res.exc
    /\ printed' = res.printed
    /\ UNCHANGED <<args, bsm, nDerive, frames>>
    /\ UNCHANGED chainVars
    /\ UNCHANGED appVars

DoSimulateBsm ==
    Simulated(simulate_bsm(args.S, args.K, args.t, args.r, args.sigma, args.q,
                           args.option_type, args.range_percent, args.steps))

InitSweep ==
    /\ args \in [S : SweepSpotValues, K : SweepStrikeValues, t : SweepTimeValues,
                 r : {40}, sigma : {200}, q : {0}, option_type : OptionTypeValues,
                 range_percent : RangeValues, steps : 0..MaxSteps]
    /\ IdleCall
    /\ IdleChain
    /\ IdleApp

NextSweep == DoSimulateBsm

SpecSweep == InitSweep /\ [][NextSweep]_vars

----------------------------------------------------------------------------
(* process_option_chains applied to bounded market data as days pass:       *)
(* SpecChain *)

\* the most rows the two market tables hold together
MaxRows == 3

\* the last day number the clock reaches
MaxDay == 2

CallRowValues ==
    { [contractSymbol |-> "C090", strike |-> 90 * SCALE, bid |-> 10400, ask |-> 10900,
       impliedVolatility |-> 250, inTheMoney |-> TRUE],
      [contractSymbol |-> "C100", strike |-> 100 * SCALE, bid |-> 2200, ask |-> 2350,
       impliedVolatility |-> 200, inTheMoney |-> FALSE],
      [contractSymbol |-> "C100X", strike |-> 100 * SCALE, bid |-> 0, ask |-> 0,
       impliedVolatility |-> 0, inTheMoney |-> FALSE] }

PutRowValues ==
    { [contractSymbol |-> "P110", strike |-> 110 * SCALE, bid |-> 10100, ask |-> 10500,
       impliedVolatility |-> 250, inTheMoney |-> TRUE],
      [contractSymbol |-> "P100", strike |-> 100 * SCALE, bid |-> 2100, ask |-> 2300,
       impliedVolatility |-> 200, inTheMoney |-> FALSE],
      [contractSymbol |-> "P100X", strike |-> 100 * SCALE, bid |-> 0, ask |-> 50,
       impliedVolatility |-> -10, inTheMoney |-> FALSE] }

SeqsUpTo(S, n) == UNION {[1..k -> S] : k \in 0..n}

MarketFrame(rows) == [columns |-> MarketColumns, rows |-> rows]

ExpirationValues == {1, 30}

MetadataValues ==
    { [spotPrice |-> 100 * SCALE, dividendYield |-> 0],
      [spotPrice |-> 100 * SCALE, dividendYield |-> 1200],
      [spotPrice |-> 0, dividendYield |-> 0] }

Processed(res) ==
    /\ heap' = res.heap
    /\ ret' = res.ret
    /\ raised' = res.exc
    /\ frames' = res.frames
    /\ last' = [op |-> "process_option_chains", option_type |-> "", day |-> today]
    /\ firstRun' = IF firstRun = NoRun
                   THEN [day |-> today, ret |-> res.ret, exc |-> res.exc]
                   ELSE firstRun
    /\ UNCHANGED <<args, bsm, nDerive, printed, today, chains, expiration_date, stock_metadata>>
    /\ UNCHANGED appVars

DoProcessOptionChains ==
    Processed(process_option_chains(heap, chains, expiration_date, stock_metadata, today))

\* midnight passes: date.today() moves on
Tick ==
    /\ today < MaxDay
    /\ today' = today + 1
    /\ UNCHANGED <<args, bsm, nDerive, last, ret, raised, printed, frames,
                   heap, chains, expiration_date, stock_metadata, firstRun>>
    /\ UNCHANGED appVars

InitChain ==
    /\ args = <<>>
    /\ IdleCall
    /\ today = 0
    /\ \E cs \in SeqsUpTo(CallRowValues, MaxRows), ps \in SeqsUpTo(PutRowValues, MaxRows) :
          /\ Len(cs) + Len(ps) <= MaxRows
          /\ heap = <<MarketFrame(cs), MarketFrame(ps)>>
    /\ chains = [CALL |-> 1, PUT |-> 2]
    /\ expiration_date \in ExpirationValues
    /\ stock_metadata \in MetadataValues
    /\ firstRun = NoRun
    /\ IdleApp

NextChain ==
    \/ DoProcessOptionChains
    \/ Tick

SpecChain == InitChain /\ [][NextChain]_vars

----------------------------------------------------------------------------
(* event_manager.py: the session and its handlers.  Percentages and prices
   are held in the session in the same fixed-point unit as the engine's
   numbers (20.0 percent is 20 * SCALE); dates are day numbers. *)

\* simulate_bsm's default range_percent, 0.30
DefaultRangePercent == 300

\* simulate_bsm's default steps
DefaultSteps == 50

\* the most grid points a sweep of the session is followed for
MaxGrid == 5

\* EventManager.initialize; relativedelta(months=1) is taken as 30 days
initialize(today_) ==
    [INPUT_UNDERLYING_ASSET_PRICE |-> 660 * SCALE,
     INPUT_STRIKE_PRICE |-> 600 * SCALE,
     INPUT_VOLATILITY |-> 20 * SCALE,
     INPUT_INTEREST_RATE |-> 4250,
     INPUT_EXPIRATION_DATE |-> today_ + 30,
     INPUT_DIVIDEND_YIELD |-> 0,
     INPUT_STOCK_OPTION_TICKER |-> "SPY",
     INPUT_STOCK_OPTION_EXPIRATION_DATE |-> today_,
     BUTTON_CALCULATE |-> FALSE,
     BUTTON_SIMULATE |-> FALSE,
     BUTTON_FETCH |-> FALSE,
     DATA_BSM_CALCULATION |-> [CALL |-> Dict(<<>>), PUT |-> Dict(<<>>)],
     DATA_BSM_SIMULATION |-> [CALL |-> DataFrame(<<>>, <<>>), PUT |-> DataFrame(<<>>, <<>>)],
     DATA_STOCK_OPTION_CHAINS |-> [CALL |-> DataFrame(<<>>, <<>>), PUT |-> DataFrame(<<>>, <<>>)],
     DATA_STOCK_OPTION_EXPIRATION_DATES |-> <<>>,
     DATA_STOCK |-> Dict(<<>>),
     STATE_INITIALIZE |-> TRUE]

\* (abs(expiration - date.today())).days / 365
TimeToExpiry(expiration, today_) == RDiv(Abs(expiration - today_) * SCALE, 365)

\* event_calculate_bsm, lines 84-89: what the handler hands to the engine
CalculateParameters(ss, today_) ==
    [S |-> ss.INPUT_UNDERLYING_ASSET_PRICE,
     K |-> ss.INPUT_STRIKE_PRICE,
     t |-> TimeToExpiry(ss.INPUT_EXPIRATION_DATE, today_),
     r |-> RDiv(ss.INPUT_INTEREST_RATE, 100),
     sigma |-> RDiv(ss.INPUT_VOLATILITY, 100),
     q |-> RDiv(ss.INPUT_DIVIDEND_YIELD, 100)]

\* event_simulate_bsm, lines 100-105: the dividend yield is not divided by 100
SimulateParameters(ss, today_) ==
    [S |-> ss.INPUT_UNDERLYING_ASSET_PRICE,
     K |-> ss.INPUT_STRIKE_PRICE,
     t |-> TimeToExpiry(ss.INPUT_EXPIRATION_DATE, today_),
     r |-> RDiv(ss.INPUT_INTEREST_RATE, 100),
     sigma |-> RDiv(ss.INPUT_VOLATILITY, 100),
     q |-> ss.INPUT_DIVIDEND_YIELD]

\* what a handler leaves behind: the session and the exception it raised
Handled(ss, exc, log) == [session |-> ss, exc |-> exc, printed |-> log]

StoreCalculation_ClearsOnError(ss, c, p) ==
    IF c.exc # NoExc
    THEN Handled([ss EXCEPT !.DATA_BSM_CALCULATION = [CALL |-> Dict(<<>>), PUT |-> Dict(<<>>)]],
                 c.exc, <<>>)
    ELSE IF p.exc # NoExc
    THEN Handled([ss EXCEPT !.DATA_BSM_CALCULATION = [CALL |-> c.ret, PUT |-> Dict(<<>>)]],
                 p.exc, <<>>)
    ELSE Handled([ss EXCEPT !.DATA_BSM_CALCULATION = [CALL |-> c.ret, PUT |-> p.ret]],
                 NoExc, <<>>)

\* event_calculate_bsm, lines 91-96: the dict is built from both results
\* before EventManager.set is reached
StoreCalculation(ss, c, p) ==
    IF c.exc # NoExc THEN Handled(ss, c.exc, <<>>)
    ELSE IF p.exc # NoExc THEN Handled(ss, p.exc, <<>>)
    ELSE Handled([ss EXCEPT !.DATA_BSM_CALCULATION = [CALL |-> c.ret, PUT |-> p.ret]],
                 NoExc, <<>>)

Calculate(ss, a) ==
    StoreCalculation(ss, calculate_bsm(a.S, a.K, a.t, a.r, a.sigma, a.q, CALL),
                     calculate_bsm(a.S, a.K, a.t, a.r, a.sigma, a.q, PUT))

event_calculate_bsm(ss, today_) == Calculate(ss, CalculateParameters(ss, today_))

\* event_simulate_bsm, lines 107-112; simulate_bsm raises nothing of its own
StoreSimulation(ss, c, p) ==
    Handled([ss EXCEPT !.DATA_BSM_SIMULATION = [CALL |-> c.ret, PUT |-> p.ret]],
            NoExc, c.printed \o p.printed)

Simulate(ss, a) ==
    StoreSimulation(ss,
                    simulate_bsm(a.S, a.K, a.t, a.r, a.sigma, a.q, CALL,
                                 DefaultRangePercent, Min(DefaultSteps, MaxGrid)),
                    simulate_bsm(a.S, a.K, a.t, a.r, a.sigma, a.q, PUT,
                                 DefaultRangePercent, Min(DefaultSteps, MaxGrid)))

event_simulate_bsm(ss, today_) == Simulate(ss, SimulateParameters(ss, today_))

\* event_fetch_option_expiration_dates; dates is what the quote service lists
event_fetch_option_expiration_dates(ss, dates) ==
    Handled([ss EXCEPT !.DATA_STOCK_OPTION_EXPIRATION_DATES = dates], NoExc, <<>>)

\* event_fetch_option_chains; fetched and metadata are what data_utils returns
event_fetch_option_chains(ss, fetched, metadata) ==
    Handled([ss EXCEPT !.DATA_STOCK_OPTION_CHAINS = fetched, !.DATA_STOCK = metadata],
            NoExc, <<>>)

----------------------------------------------------------------------------
(* app.py: what one run of the script puts on the page *)

\* DataFrame.empty
IsEmpty(df) == df.v.rows = <<>>

\* build_greek_table: the metrics row appears for a non-empty record
build_greek_table(ss, option_type) ==
    IF ss.DATA_BSM_CALCULATION[option_type].v # <<>> THEN "metrics" ELSE "nothing"

\* build_greek_chart, lines 49-56: the warning depends on the button of this run
build_greek_chart(ss, option_type) ==
    IF IsEmpty(ss.DATA_BSM_SIMULATION[option_type])
    THEN IF ss.BUTTON_SIMULATE THEN "warning" ELSE "nothing"
    ELSE "charts"

build_bsm_tab_content(ss) ==
    [table |-> [CALL |-> build_greek_table(ss, "CALL"), PUT |-> build_greek_table(ss, "PUT")],
     chart |-> [CALL |-> build_greek_chart(ss, "CALL"), PUT |-> build_greek_chart(ss, "PUT")]]

build_option_expiration_dates_content(ss) ==
    IF ss.DATA_STOCK_OPTION_EXPIRATION_DATES = <<>>
    THEN IF ss.BUTTON_FETCH THEN "warning" ELSE "nothing"
    ELSE "selectbox"

\* lines 144-160: the enrichment runs while the page is drawn; what it raises
\* is not caught
EnrichedTable(res) == IF res.exc # NoExc THEN "exception" ELSE "table"

build_option_chains_content(ss, today_) ==
    IF ss.DATA_STOCK_OPTION_CHAINS = <<>>
    THEN IF ss.BUTTON_FETCH THEN "warning" ELSE "nothing"
    ELSE IF \/ IsEmpty(ss.DATA_STOCK_OPTION_CHAINS.CALL)
            \/ IsEmpty(ss.DATA_STOCK_OPTION_CHAINS.PUT)
    THEN "warning"
    ELSE EnrichedTable(process_option_chains(
             <<ss.DATA_STOCK_OPTION_CHAINS.CALL.v, ss.DATA_STOCK_OPTION_CHAINS.PUT.v>>,
             [CALL |-> 1, PUT |-> 2], ss.INPUT_STOCK_OPTION_EXPIRATION_DATE,
             ss.DATA_STOCK.v, today_))

\* main, for an initialised session
main(ss, today_) ==
    [rendered |-> TRUE,
     calculator |-> build_bsm_tab_content(ss),
     dates |-> build_option_expiration_dates_content(ss),
     chains |-> build_option_chains_content(ss, today_)]

\* a callback raised: the script body is not run, the page shows the exception
CallbackFailed == [rendered |-> FALSE]

\* the widget state of a run: only the button that triggered it is True
Buttons(ss, pressed) ==
    [ss EXCEPT !.BUTTON_CALCULATE = (pressed = "BUTTON_CALCULATE"),
               !.BUTTON_SIMULATE = (pressed = "BUTTON_SIMULATE"),
               !.BUTTON_FETCH = (pressed = "BUTTON_FETCH")]

----------------------------------------------------------------------------
(* SpecApp: one browser session; every user event reruns the script *)

\* the days the Expiration Date input is set to: today and a month ahead
ExpirationInputs == {0, 30}

\* the Dividend Yield input, in percent
DividendInputs == {0, SCALE}

\* what the quote service lists for the ticker
ListedDates == {<<>>, <<30>>}

\* what get_option_chains returns: nothing, a valid pair, a put with a
\* negative implied volatility
FetchedChains ==
    { [CALL |-> DataFrame(<<>>, <<>>), PUT |-> DataFrame(<<>>, <<>>)],
      [CALL |-> DataFrame(MarketColumns,
                          <<[contractSymbol |-> "C100", strike |-> 100 * SCALE, bid |-> 2200,
                             ask |-> 2350, impliedVolatility |-> 200, inTheMoney |-> FALSE]>>),
       PUT |-> DataFrame(MarketColumns,
                         <<[contractSymbol |-> "P100", strike |-> 100 * SCALE, bid |-> 2100,
                            ask |-> 2300, impliedVolatility |-> 200, inTheMoney |-> FALSE]>>)],
      [CALL |-> DataFrame(MarketColumns,
                          <<[contractSymbol |-> "C100", strike |-> 100 * SCALE, bid |-> 2200,
                             ask |-> 2350, impliedVolatility |-> 200, inTheMoney |-> FALSE]>>),
       PUT |-> DataFrame(MarketColumns,
                         <<[contractSymbol |-> "P100X", strike |-> 100 * SCALE, bid |-> 0,
                            ask |-> 50, impliedVolatility |-> -10, inTheMoney |-> FALSE]>>)] }

\* what get_stock_metadata returns
FetchedMetadata == Dict([spotPrice |-> 100 * SCALE, dividendYield |-> 0])

\* a user event: the widget state is applied, the callback h has run, and the
\* script body runs unless the callback raised
Rerun(op, h, swept) ==
    /\ session' = h.session
    /\ page' = IF h.exc # NoExc THEN CallbackFailed ELSE main(h.session, today)
    /\ simulated' = swept
    /\ last' = [op |-> op, option_type |-> ""]
    /\ ret' = None
    /\ raised' = h.exc
    /\ printed' = h.printed
    /\ UNCHANGED <<args, bsm, nDerive, frames>>
    /\ UNCHANGED chainVars

\* an input of the sidebar is edited
ChangeInputs ==
    \E e \in ExpirationInputs, d \in DividendInputs :
        /\ <<e, d>> # <<session.INPUT_EXPIRATION_DATE, session.INPUT_DIVIDEND_YIELD>>
        /\ Rerun("input",
                 Handled([Buttons(session, "") EXCEPT !.INPUT_EXPIRATION_DATE = e,
                                                      !.INPUT_DIVIDEND_YIELD = d],
                         NoExc, <<>>),
                 simulated)

ClickCalculate ==
    Rerun("event_calculate_bsm",
          event_calculate_bsm(Buttons(session, "BUTTON_CALCULATE"), today), simulated)

ClickSimulate ==
    Rerun("event_simulate_bsm",
          event_simulate_bsm(Buttons(session, "BUTTON_SIMULATE"), today), TRUE)

ClickFetch ==
    \E dates \in ListedDates :
        Rerun("event_fetch_option_expiration_dates",
              event_fetch_option_expiration_dates(Buttons(session, "BUTTON_FETCH"), dates),
              simulated)

\* another date is picked in the selectbox
SelectExpiration ==
    \E i \in DOMAIN session.DATA_STOCK_OPTION_EXPIRATION_DATES, fetched \in FetchedChains :
        /\ session.DATA_STOCK_OPTION_EXPIRATION_DATES[i] # session.INPUT_STOCK_OPTION_EXPIRATION_DATE
        /\ Rerun("event_fetch_option_chains",
                 event_fetch_option_chains(
                     [Buttons(session, "") EXCEPT !.INPUT_STOCK_OPTION_EXPIRATION_DATE =
                          session.DATA_STOCK_OPTION_EXPIRATION_DATES[i]],
                     fetched, FetchedMetadata),
                 simulated)

\* the first run of the script: initialize, then the page
InitApp ==
    /\ args = NoObject
    /\ IdleCall
    /\ IdleChain
    /\ session = initialize(0)
    /\ page = main(initialize(0), 0)
    /\ simulated = FALSE

NextApp ==
    \/ ChangeInputs
    \/ ClickCalculate
    \/ ClickSimulate
    \/ ClickFetch
    \/ SelectExpiration

SpecApp == InitApp /\ [][NextApp]_vars

----------------------------------------------------------------------------
(* Properties *)

InputErrorMessages == {MsgSpot, MsgStrike, MsgTime, MsgSigma, MsgDividend}

IsInvalidInputError(e) == e.type = "ValueError" /\ e.msg \in InputErrorMessages

IsInvalidVariantError(e) == e.type = "ValueError" /\ e.msg \in {MsgVariant, MsgOptionType}

\* the domain violations the specification lists for the six pricing inputs
InvalidInputs(S, K, t, sigma, q) == S <= 0 \/ K <= 0 \/ t <= 0 \/ sigma <= 0 \/ q < 0

InvalidArgs(a) == InvalidInputs(a.S, a.K, a.t, a.sigma, a.q)

HasDerived == "d1" \in DOMAIN bsm

\* C1: constructing a pricer, directly or inside calculate_bsm, fails with
\* the invalid-input error exactly when S <= 0, K <= 0, t <= 0, sigma <= 0
\* or q < 0 (whatever the sign of r); a constructor that fails has not run
\* _calculate_d1_d2 and the instance has no d1/d2; one that succeeds has
\* derived them.
C1_ValidationIff ==
    last.op \in {"__init__", "calculate_bsm"} =>
        /\ IsInvalidInputError(raised) <=> InvalidArgs(args)
        /\ InvalidArgs(args) => ~HasDerived /\ nDerive = 0 /\ ret = None
        /\ ~InvalidArgs(args) => HasDerived /\ nDerive = 1
        /\ last.op = "__init__" => (raised # NoExc <=> InvalidArgs(args))
        /\ bsm.S = args.S /\ bsm.K = args.K /\ bsm.t = args.t
        /\ bsm.r = args.r /\ bsm.sigma = args.sigma /\ bsm.q = args.q

\* a construction that failed on the dividend yield alone, with a negative rate
C1_Witness ==
    /\ last.op = "__init__"
    /\ raised = ValueError(MsgDividend)
    /\ args.r < 0
    /\ ~HasDerived

\* C2: with valid pricing inputs calculate_bsm returns the call() record for
\* CALL and the put() record for PUT, never the other one, and for any other
\* variant raises the invalid-variant error and returns nothing.
C2_VariantDispatch ==
    (last.op = "calculate_bsm" /\ ~InvalidArgs(args)) =>
        IF last.option_type = CALL
        THEN raised = NoExc /\ ret.kind = "dict"
             /\ ret = call(bsm).ret /\ ret # put(bsm).ret
        ELSE IF last.option_type = PUT
        THEN raised = NoExc /\ ret.kind = "dict"
             /\ ret = put(bsm).ret /\ ret # call(bsm).ret
        ELSE raised = ValueError(MsgVariant) /\ ret = None

\* calculate_bsm was given a variant that is neither CALL nor PUT, and raised
C2_Witness ==
    /\ last.op = "calculate_bsm"
    /\ ~InvalidArgs(args)
    /\ last.option_type \notin OptionTypeMembers
    /\ raised = ValueError(MsgVariant)

\* the rows of a frame, and the S column of a sweep frame
RowsOf(frame) == frame.v.rows

RECURSIVE Keep(_, _, _, _)
\* the elements of spots from index i on that are valid (want = TRUE) or
\* invalid (want = FALSE) as the spot of the sweep's other inputs a
Keep(spots, i, a, want) ==
    IF i > Len(spots) THEN <<>>
    ELSE IF InvalidInputs(spots[i], a.K, a.t, a.sigma, a.q) = want
    THEN Keep(spots, i + 1, a, want)
    ELSE <<spots[i]>> \o Keep(spots, i + 1, a, want)

GeneratedSpots == SpotPrices(args.S, args.K, args.range_percent, args.steps)

ValidSpots == Keep(GeneratedSpots, 1, args, TRUE)

SkippedSpots == Keep(GeneratedSpots, 1, args, FALSE)

\* the dict of price and Greeks for a valid spot, the way the given member
\* of OptionType prices it
PricedAt(spot, a, option_type) ==
    IF option_type = CALL
    THEN call(init(spot, a.K, a.t, a.r, a.sigma, a.q).self).ret.v
    ELSE put(init(spot, a.K, a.t, a.r, a.sigma, a.q).self).ret.v

\* C3: simulate_bsm never aborts on an invalid-input error: it returns
\* without raising, its rows are the generated spots with exactly the
\* failing points left out, in the generated (ascending) order, each row's S
\* is the spot it was priced with, and one line is printed per omitted point.
C3_SweepSkipsPoint ==
    last.op = "simulate_bsm" =>
        /\ raised = NoExc
        /\ ret.kind = "DataFrame"
        /\ Len(RowsOf(ret)) = Len(ValidSpots)
        /\ \A i \in 1..Len(RowsOf(ret)) :
              /\ RowsOf(ret)[i].S = ValidSpots[i]
              /\ i > 1 => RowsOf(ret)[i - 1].S <= RowsOf(ret)[i].S
              /\ args.option_type \in OptionTypeMembers =>
                    RowsOf(ret)[i] = PricedAt(ValidSpots[i], args, args.option_type)
                                       @@ [S |-> ValidSpots[i]]
        /\ printed = SkippedSpots

\* a sweep whose first points failed and whose later points were priced
C3_Witness ==
    /\ last.op = "simulate_bsm"
    /\ Len(printed) >= 1
    /\ Len(RowsOf(ret)) >= 2
    /\ GeneratedSpots[1] <= 0
    /\ RowsOf(ret)[1].S = GeneratedSpots[Len(printed) + 1]

\* C4 as stated: a variant outside {CALL, PUT} makes simulate_bsm raise the
\* invalid-variant error to its caller, and no rows come back.
C4_VariantErrorPropagates ==
    (last.op = "simulate_bsm" /\ args.option_type \notin OptionTypeMembers) =>
        IsInvalidVariantError(raised) /\ ret = None

SweepStart == FMul(Min(args.S, args.K), SCALE - args.range_percent)

SweepEnd == FMul(Max(args.S, args.K), SCALE + args.range_percent)

\* the spacing of the generated points may differ from (end - start)/(steps - 1)
\* by the rounding of one fixed-point unit per step
EvenlySpaced(spots) ==
    \A i \in 1..(Len(spots) - 1) :
        Abs((spots[i + 1] - spots[i]) * (Len(spots) - 1) - (SweepEnd - SweepStart))
            <= Len(spots) * Len(spots)

StrictlyIncreasing(rows) == \A i \in 1..(Len(rows) - 1) : rows[i].S < rows[i + 1].S

AllSpotsValid == SkippedSpots = <<>>

QueryOps == {"call", "put", "delta", "gamma", "vega", "theta", "rho"}

\* C10: call(), put(), delta(), gamma(), vega(), theta() and rho() leave
\* S, K, t, r, sigma, q, d1 and d2 as they were and never run
\* _calculate_d1_d2: a constructed instance has derived d1/d2 exactly once,
\* in its constructor, from the inputs it was given.
C10_QueriesPure ==
    /\ [](HasDerived => nDerive = 1 /\ <<bsm.d1, bsm.d2>> = calculate_d1_d2(args))
    /\ [][last'.op \in QueryOps => (bsm' = bsm /\ nDerive' = nDerive)]_vars

\* theta() has run on a constructed instance
C10_Witness ==
    /\ last.op = "theta"
    /\ last.option_type = PUT
    /\ raised = NoExc
    /\ HasDerived
    /\ nDerive = 1

(* Properties of process_option_chains, over SpecChain *)

ChainRan == last.op = "process_option_chains"

\* the caller's table of a variant
InputRows(variant) == heap[chains[variant]].rows

\* row of a market table that the constructor rejects with the parameters
\* the run derived
InvalidRow(row) ==
    InvalidInputs(frames.S, row.strike, frames.t, row.impliedVolatility, frames.q)

AnyInvalidRow ==
    \E variant \in {CALL, PUT} : \E i \in 1..Len(InputRows(variant)) :
        InvalidRow(InputRows(variant)[i])

\* C5: process_option_chains never suppresses a Pricer error: whenever some
\* row of either market table makes an invalid pricing input, the run
\* returns nothing and ends with the constructor's invalid-input error.
C5_ChainErrorPropagates ==
    (ChainRan /\ AnyInvalidRow) => (IsInvalidInputError(raised) /\ ret = None)

\* a run whose calls were all priced and whose puts hold the failing row
C5_Witness ==
    /\ ChainRan
    /\ Len(InputRows(CALL)) >= 1
    /\ \A i \in 1..Len(InputRows(CALL)) : ~InvalidRow(InputRows(CALL)[i])
    /\ \E i \in 1..Len(InputRows(PUT)) : InvalidRow(InputRows(PUT)[i])
    /\ raised = ValueError(MsgSigma)

\* the price and delta of one market row under the run's parameters
RowPricer(row) ==
    init(frames.S, row.strike, frames.t, frames.r, row.impliedVolatility, frames.q).self

EnrichedFrom(out, row, data) ==
    /\ out.contractSymbol = row.contractSymbol
    /\ out.strike = row.strike
    /\ out.impliedVolatility = row.impliedVolatility
    /\ out.bid = row.bid
    /\ out.ask = row.ask
    /\ out.inTheMoney = row.inTheMoney
    /\ out.price = data.price
    /\ out.delta = data.delta

RowByRow(final, rows, variant) ==
    /\ Len(final.rows) = Len(rows)
    /\ \A i \in 1..Len(rows) :
          /\ ~InvalidRow(rows[i])
          /\ EnrichedFrom(final.rows[i], rows[i],
                          IF variant = CALL THEN call(RowPricer(rows[i])).ret.v
                          ELSE put(RowPricer(rows[i])).ret.v)

C8_SameArgsSameOutcome ==
    ChainRan => (ret = firstRun.ret /\ raised = firstRun.exc)

\* C8 within one day: while date.today() has not moved, two runs over the
\* same arguments give the same outcome.
C8_SameDaySameOutcome ==
    (ChainRan /\ last.day = firstRun.day) => (ret = firstRun.ret /\ raised = firstRun.exc)

EnrichmentColumns == Range(GreekColumns) \cup {"spread"}

Untouched(df) ==
    /\ df.columns = MarketColumns
    /\ \A i \in 1..Len(df.rows) : DOMAIN df.rows[i] = Range(MarketColumns)

\* C9: the caller's market tables are never modified: they keep their
\* columns and cells through every run, also one that fails part-way; the
\* enrichment is written to copies, and the table a run returns is a new
\* object.
C9_InputsNeverModified ==
    /\ [](/\ Len(heap) = 2
          /\ Untouched(heap[chains[CALL]])
          /\ Untouched(heap[chains[PUT]])
          /\ (ChainRan /\ raised = NoExc) =>
                /\ frames.retRef \notin DOMAIN heap
                /\ EnrichmentColumns \subseteq Range(frames.calls.columns)
                /\ EnrichmentColumns \subseteq Range(frames.puts.columns))
    /\ [][ChainRan' => heap' = heap]_vars

\* a run that priced a call row into its copy and then failed on a put row
C9_Witness ==
    /\ ChainRan
    /\ IsInvalidInputError(raised)
    /\ Len(frames.calls.rows) >= 1
    /\ frames.calls.rows[1].price # NaN
    /\ HasColumn(frames.calls, "spread")
    /\ Untouched(heap[chains[CALL]])

AllSpread(rows) == \A i \in 1..Len(rows) : rows[i].spread = rows[i].ask - rows[i].bid

AllPriced(df) == \A i \in 1..Len(df.rows) : df.rows[i].price # NaN

\* C11: a successful run gives every call row and every put row
\* spread = ask - bid, in each variant's table and in the merged table on
\* the side that has a contract for the strike; and at any point where a
\* variant's working table has its spread column, every row of that
\* variant has been priced, also in a run that failed later.
C11_SpreadAfterPricing ==
    ChainRan =>
        /\ raised = NoExc =>
              /\ AllSpread(frames.calls_final.rows)
              /\ AllSpread(frames.puts_final.rows)
              /\ \A i \in 1..Len(RowsOf(ret)) :
                    /\ RowsOf(ret)[i].ask_call # NaN =>
                          RowsOf(ret)[i].spread_call
                              = RowsOf(ret)[i].ask_call - RowsOf(ret)[i].bid_call
                    /\ RowsOf(ret)[i].ask_put # NaN =>
                          RowsOf(ret)[i].spread_put
                              = RowsOf(ret)[i].ask_put - RowsOf(ret)[i].bid_put
        /\ HasColumn(frames.calls, "spread") => AllPriced(frames.calls)
        /\ HasColumn(frames.puts, "spread") => AllPriced(frames.puts)
        /\ raised # NoExc => ~HasColumn(frames.puts, "spread")

\* a successful run whose merged table pairs a call and a put of one strike,
\* each with a non-zero spread
C11_Witness ==
    /\ ChainRan
    /\ raised = NoExc
    /\ \E i \in 1..Len(RowsOf(ret)) :
          /\ RowsOf(ret)[i].ask_call # NaN
          /\ RowsOf(ret)[i].ask_put # NaN
          /\ RowsOf(ret)[i].spread_call = 150
          /\ RowsOf(ret)[i].spread_put = 200

(* Relations between the call and the put record, over SpecPricer *)

PricedRecord == last.op \in {"call", "put"} /\ raised = NoExc

\* C12: on one constructed instance, the gamma and vega fields of the
\* record call() returns equal the gamma and vega fields of the record
\* put() returns, and both are what gamma() and vega() return.
C12_GammaVegaShared ==
    PricedRecord =>
        /\ call(bsm).ret.v.gamma = put(bsm).ret.v.gamma
        /\ call(bsm).ret.v.vega = put(bsm).ret.v.vega
        /\ ret.v.gamma = gamma(bsm).ret.v
        /\ ret.v.vega = vega(bsm).ret.v
        /\ ret \in {call(bsm).ret, put(bsm).ret}

\* put() has returned a record whose gamma and vega are not zero
C12_Witness ==
    /\ last.op = "put"
    /\ raised = NoExc
    /\ ret.v.gamma > 0
    /\ ret.v.vega > 0
    /\ ret.v.delta # call(bsm).ret.v.delta

\* S*exp(-q*t) - K*exp(-r*t)
ParityRhs(self) == FMul(self.S, DiscountQ(self)) - FMul(self.K, DiscountR(self))

SweepRan == last.op = "simulate_bsm"

\* the inputs every point of a sweep shares are in their domain
SharedInputsValid == args.K > 0 /\ args.t > 0 /\ args.sigma > 0 /\ args.q >= 0

RECURSIVE Positive(_, _, _)
\* the elements of spots from index i on that are > 0 (want = TRUE) or
\* <= 0 (want = FALSE)
Positive(spots, i, want) ==
    IF i > Len(spots) THEN <<>>
    ELSE IF (spots[i] > 0) = want THEN <<spots[i]>> \o Positive(spots, i + 1, want)
    ELSE Positive(spots, i + 1, want)

SpotsOfRows(rows) == [i \in 1..Len(rows) |-> rows[i].S]

\* C14 as stated: a point is omitted only if its spot is non-positive, so
\* every generated spot > 0 is in the output.
C14_OnlyNonPositiveSpotFails ==
    SweepRan =>
        /\ \A i \in 1..Len(printed) : printed[i] <= 0
        /\ SpotsOfRows(RowsOf(ret)) = Positive(GeneratedSpots, 1, TRUE)

\* C14 amended: when the inputs the points share (K, t, sigma, q) are
\* valid, a point is omitted exactly when its spot is non-positive, and a
\* sweep whose whole range is positive omits none; when one of the shared
\* inputs is invalid every point fails, whatever its spot, and the output
\* is empty.
C14_SpotFailsWhenSharedValid ==
    SweepRan =>
        /\ SharedInputsValid =>
              /\ printed = Positive(GeneratedSpots, 1, FALSE)
              /\ SpotsOfRows(RowsOf(ret)) = Positive(GeneratedSpots, 1, TRUE)
              /\ SweepStart > 0 => (printed = <<>> /\ Len(RowsOf(ret)) = args.steps)
        /\ ~SharedInputsValid =>
              /\ printed = GeneratedSpots
              /\ RowsOf(ret) = <<>>

\* a sweep with valid shared inputs that starts at spot 0 exactly: that
\* point alone is omitted
C14_Witness ==
    /\ SweepRan
    /\ SharedInputsValid
    /\ args.steps >= 3
    /\ printed = <<0>>
    /\ Len(RowsOf(ret)) = args.steps - 1

\* a sweep over positive spots only, all omitted because t = 0
C14_AllOmittedWitness ==
    /\ SweepRan
    /\ SweepStart > 0
    /\ args.t = 0
    /\ Len(printed) >= 2
    /\ RowsOf(ret) = <<>>

(* The degenerate case of gamma and vega, over SpecDegenerate *)

\* the denominator gamma() tests
GammaDenominator(self) == FMul(FMul(self.S, self.sigma), FSqrt(self.t))

Degenerate == Constructed /\ GammaDenominator(bsm) = 0

C15_VegaWitness ==
    /\ last.op = "vega"
    /\ Degenerate
    /\ raised = NoExc
    /\ ret.v < NaN

\* a sweep has been run in this session and the stored frame of the variant has no rows
SweepWithoutRows(option_type) ==
    simulated /\ IsEmpty(session.DATA_BSM_SIMULATION[option_type])

\* chains have been fetched and one side has no rows, so that no enrichment is possible
ChainsWithoutRows ==
    /\ last.op = "event_fetch_option_chains" \/ session.DATA_STOCK.v # <<>>
    /\ \/ IsEmpty(session.DATA_STOCK_OPTION_CHAINS.CALL)
       \/ IsEmpty(session.DATA_STOCK_OPTION_CHAINS.PUT)

\* C16: once a sweep or an enrichment has been run without producing rows,
\* every page drawn until a run produces rows carries a "no data" warning in
\* the place of the charts, respectively of the table.  (An exception shown
\* in the place of the table is counted as an explanation.)
C16_NoDataWarningPersists ==
    (session # <<>> /\ page.rendered) =>
        /\ \A option_type \in {CALL, PUT} :
              SweepWithoutRows(option_type) => page.calculator.chart[option_type] = "warning"
        /\ ChainsWithoutRows => page.chains = "warning"
        /\ page.chains \in {"warning", "exception", "table"}

\* the warning is there in the run that the Simulate click triggered
C16_WarningInTriggeringRun ==
    (session # <<>> /\ page.rendered /\ session.BUTTON_SIMULATE) =>
        \A option_type \in {CALL, PUT} :
            SweepWithoutRows(option_type) => page.calculator.chart[option_type] = "warning"

\* C17: for every session state, event_calculate_bsm and event_simulate_bsm
\* hand the same S, K, t, r, sigma and q to the engine
C17_SameParameters ==
    session # <<>> => CalculateParameters(session, today) = SimulateParameters(session, today)

\* the two derivations agree on everything but the dividend yield
C17_SameButDividend ==
    session # <<>> =>
        \A f \in {"S", "K", "t", "r", "sigma"} :
            CalculateParameters(session, today)[f] = SimulateParameters(session, today)[f]

\* the call record and the put record of one handler run on the parameters a
CalculationOf(a) ==
    [CALL |-> calculate_bsm(a.S, a.K, a.t, a.r, a.sigma, a.q, CALL).ret,
     PUT |-> calculate_bsm(a.S, a.K, a.t, a.r, a.sigma, a.q, PUT).ret]

\* the parameters the sessions of SpecApp can hand to event_calculate_bsm
SessionParameters ==
    { CalculateParameters([initialize(0) EXCEPT !.INPUT_EXPIRATION_DATE = e,
                                                !.INPUT_DIVIDEND_YIELD = d], 0) :
          e \in ExpirationInputs, d \in DividendInputs }

Priceable(a) == calculate_bsm(a.S, a.K, a.t, a.r, a.sigma, a.q, CALL).exc = NoExc

StoredPair ==
    \/ session.DATA_BSM_CALCULATION = initialize(0).DATA_BSM_CALCULATION
    \/ \E a \in SessionParameters :
          Priceable(a) /\ session.DATA_BSM_CALCULATION = CalculationOf(a)

CalculateRaised == last'.op = "event_calculate_bsm" /\ raised' # NoExc

CalculateReturned == last'.op = "event_calculate_bsm" /\ raised' = NoExc

\* C18: DATA_BSM_CALCULATION is always the initial pair of empty records or
\* the call and put records of one handler run on one set of inputs; a run
\* of event_calculate_bsm that raises leaves the stored pair as it was, a
\* run that returns stores the pair of the session's inputs, and no other
\* event touches it
C18_CalculationAtomic ==
    /\ [](session # <<>> => StoredPair)
    /\ [][CalculateRaised =>
              session'.DATA_BSM_CALCULATION = session.DATA_BSM_CALCULATION]_vars
    /\ [][CalculateReturned =>
              session'.DATA_BSM_CALCULATION =
                  CalculationOf(CalculateParameters(session, today))]_vars
    /\ [][(session # <<>> /\ last'.op # "event_calculate_bsm") =>
              session'.DATA_BSM_CALCULATION = session.DATA_BSM_CALCULATION]_vars

\* Calculate was clicked with the expiration date set to today while a
\* computed pair was stored
C18_Witness ==
    /\ last.op = "event_calculate_bsm"
    /\ raised = ValueError(MsgTime)
    /\ session.DATA_BSM_CALCULATION.CALL.v # <<>>
    /\ session.DATA_BSM_CALCULATION.PUT.v # <<>>

============================================================================
